---------------------------- MODULE Spec2Model ----------------------------
(***************************************************************************)
(* check_timed_logs_fast: the backward scan of a log file (process_file,   *)
(* process_line), the date resolution (parse_date), the window boundary    *)
(* (get_oldest_allowed_utc_ts, get_oldest_allowed_local_ts) and the driver *)
(* loop (run).                                                             *)
(*                                                                         *)
(* Bytes and characters are one-element strings.  A file is a sequence of  *)
(* bytes; a text is a sequence of characters.  A numeral that the program  *)
(* reads as one run of digits may be written as one element ("2018").      *)
(***************************************************************************)
EXTENDS Integers, Sequences, FiniteSets, TLC

\* ------------------------------------------------------------------ bounds
\* longest file, in bytes, of the runs over every file of digits, newlines
\* and invalid bytes
MaxLen == 5
\* longest file, in bytes, of the runs over every file of any bytes
MaxTextLen == 3
\* most candidates one glob expansion yields
MaxFiles == 2
\* longest date field, in elements, handed to parse_date
MaxDateLen == 3
\* frames parse_date may stack before the stack is exhausted
MaxDepth == 3
\* width of the unsigned machine word (u64 in the source), in bits
WordBits == 8
\* largest interval_to_check, in minutes, of the window computations
MaxInterval == 6
\* the largest threshold of the driver
MaxThreshold == 2
\* the largest number of matches a run hands to the driver
MaxMatches == 2

\* ------------------------------------------------------------ characters
NL == "\n"
SP == " "
\* a byte that occurs in no valid UTF-8 sequence (0xFF)
BAD == "#FF"
COMMA == ","

Whitespace == {SP, NL}
DigitChars == {"3", "8"}
YearNumerals == {"2017", "2018"}
\* a sub-second suffix such as the 079 of 00:01:51,079
FractionNumerals == {"079"}
Numerals == DigitChars \cup YearNumerals \cup FractionNumerals

\* the month, day and time of day "%b %d %H:%M:%S" reads, as one element
MonthDayTimes == {"Aug 8 11:28:21", "Sep 13 00:01:51"}

\* decimal width and value of a numeral
NumWidth(t) ==
  IF t \in YearNumerals THEN 4 ELSE IF t \in FractionNumerals THEN 3 ELSE 1

NumValue(t) ==
  CASE t = "3" -> 3
    [] t = "8" -> 8
    [] t = "079" -> 79
    [] t = "2017" -> 2017
    [] t = "2018" -> 2018

\* seconds from the start of the year to a month, day and time of day
SecsIntoYear(t) ==
  CASE t = "Aug 8 11:28:21" -> 18962901
    [] t = "Sep 13 00:01:51" -> 22032111

RECURSIVE Pow10(_)
Pow10(w) == IF w = 0 THEN 1 ELSE 10 * Pow10(w - 1)

RECURSIVE Pow2(_)
Pow2(w) == IF w = 0 THEN 1 ELSE 2 * Pow2(w - 1)

\* ------------------------------------------------------------ sequences
RECURSIVE TrimLeft(_)
TrimLeft(s) ==
  IF s # <<>> /\ Head(s) \in Whitespace THEN TrimLeft(Tail(s)) ELSE s

RECURSIVE TrimRight(_)
TrimRight(s) ==
  IF s # <<>> /\ s[Len(s)] \in Whitespace
  THEN TrimRight(SubSeq(s, 1, Len(s) - 1))
  ELSE s

\* str::trim
Trim(s) == TrimRight(TrimLeft(s))

\* str::split_whitespace: the maximal runs of non-whitespace characters
RECURSIVE SplitWhitespaceFrom(_, _, _)
SplitWhitespaceFrom(s, word, acc) ==
  IF s = <<>>
  THEN IF word = <<>> THEN acc ELSE Append(acc, word)
  ELSE IF Head(s) \in Whitespace
       THEN SplitWhitespaceFrom(Tail(s), <<>>,
                                IF word = <<>> THEN acc ELSE Append(acc, word))
       ELSE SplitWhitespaceFrom(Tail(s), Append(word, Head(s)), acc)

split_whitespace(s) == SplitWhitespaceFrom(s, <<>>, <<>>)

\* [&str]::join(" ")
RECURSIVE JoinFrom(_, _)
JoinFrom(words, acc) ==
  IF words = <<>> THEN acc
  ELSE JoinFrom(Tail(words),
                IF acc = <<>> THEN Head(words) ELSE acc \o <<SP>> \o Head(words))

join(words) == JoinFrom(words, <<>>)

\* str::find(','): the 0-based position of the first comma, or the length
RECURSIVE FindCommaFrom(_, _)
FindCommaFrom(s, i) ==
  IF i > Len(s) THEN Len(s)
  ELSE IF s[i] = COMMA THEN i - 1 ELSE FindCommaFrom(s, i + 1)

find_comma(s) == FindCommaFrom(s, 1)

\* ------------------------------------------------------- chrono's parser
\* The format items: "%Y" (year, at most 4 digits), "%s" (seconds since the
\* epoch), "%b %d %H:%M:%S" (month, day and time of day) and " " (white space).
ItemYear == "%Y"
ItemTimestamp == "%s"
ItemMonthDayTime == "%b %d %H:%M:%S"

TOO_SHORT == "premature end of input"
INVALID == "input contains invalid characters"
TOO_LONG == "trailing input"
NOT_ENOUGH == "input is not enough for unique date and time"
IMPOSSIBLE == "no possible date and time matching input"
OUT_OF_RANGE == "input is out of range"

Unset == -1
\* %s takes every digit there is (usize::MAX); no text of the model is longer
TimestampDigits == 9
NoFields == [year |-> Unset, mdt |-> Unset, timestamp |-> Unset]

\* scan::number(s, 1, max): the longest run of digits of width <= max
RECURSIVE ScanNumber(_, _, _, _)
ScanNumber(s, max, taken, val) ==
  IF s # <<>> /\ Head(s) \in Numerals /\ taken + NumWidth(Head(s)) <= max
  THEN ScanNumber(Tail(s), max, taken + NumWidth(Head(s)),
                  val * Pow10(NumWidth(Head(s))) + NumValue(Head(s)))
  ELSE [taken |-> taken, val |-> val, rest |-> s]

Err(e) == [ok |-> FALSE, err |-> e]

\* format::parse: consume the text item by item
RECURSIVE ParseItems(_, _, _)
ParseItems(s, items, parsed) ==
  IF items = <<>>
  THEN IF s # <<>> THEN Err(TOO_LONG) ELSE [ok |-> TRUE, parsed |-> parsed]
  ELSE LET item == Head(items)
           t == TrimLeft(s)
       IN CASE item = SP -> ParseItems(t, Tail(items), parsed)
            [] item \in {ItemYear, ItemTimestamp} ->
                 LET n == ScanNumber(t, IF item = ItemYear THEN 4 ELSE TimestampDigits, 0, 0)
                 IN IF n.taken = 0
                    THEN IF t = <<>> THEN Err(TOO_SHORT) ELSE Err(INVALID)
                    ELSE ParseItems(n.rest, Tail(items),
                           IF item = ItemYear
                           THEN [parsed EXCEPT !.year = n.val]
                           ELSE [parsed EXCEPT !.timestamp = n.val])
            [] item = ItemMonthDayTime ->
                 IF s = <<>> THEN Err(TOO_SHORT)
                 ELSE IF Head(s) \notin MonthDayTimes THEN Err(INVALID)
                 ELSE ParseItems(Tail(s), Tail(items),
                                 [parsed EXCEPT !.mdt = SecsIntoYear(Head(s))])
            [] OTHER -> Err("bad or unsupported format string")

\* the first second of a year, for the years the model resolves
YearStart(y) == 86400 * (365 * (y - 1970) + ((y - 1969) \div 4))

YearOf(ts) == CHOOSE y \in 1970..2037 : YearStart(y) <= ts /\ ts < YearStart(y + 1)

\* Parsed::to_datetime_with_timezone(Utc): the fields read must determine one
\* instant; a timestamp determines it, and the other fields must agree
Resolve(parsed) ==
  IF parsed.timestamp # Unset
  THEN IF parsed.year # Unset /\ parsed.year # YearOf(parsed.timestamp)
       THEN Err(IMPOSSIBLE)
       ELSE [ok |-> TRUE, ts |-> parsed.timestamp]
  ELSE IF parsed.year = Unset \/ parsed.mdt = Unset THEN Err(NOT_ENOUGH)
  ELSE IF parsed.year \notin 1970..2037 THEN Err(OUT_OF_RANGE)
  ELSE [ok |-> TRUE, ts |-> YearStart(parsed.year) + parsed.mdt]

\* Utc.datetime_from_str(s, fmt)
datetime_from_str(s, fmt) ==
  LET p == ParseItems(s, fmt, NoFields)
  IN IF p.ok THEN Resolve(p.parsed) ELSE p

\* ---------------------------------------------------------------- parse_date
PlaceholderYear == "2018"

Some(ts) == [tag |-> "Some", ts |-> ts]
None == [tag |-> "None"]
Recurse(text) == [tag |-> "Recurse", datefields |-> text]
Overflow == [tag |-> "Overflow"]

\* One activation of parse_date: the date, no date, or the recursive call it
\* returns the result of.
parse_date_body(datefields, pattern) ==
  LET direct == datetime_from_str(datefields, pattern)
  IN IF direct.ok THEN Some(direct.ts)
     ELSE IF direct.err = TOO_LONG
          THEN Recurse(SubSeq(datefields, 1, find_comma(datefields)))
          ELSE LET prefixed == datetime_from_str(<<PlaceholderYear, SP>> \o datefields,
                                                 <<ItemYear, SP>> \o pattern)
               IN IF prefixed.ok THEN Some(prefixed.ts) ELSE None

\* parse_date as process_line sees it.  A recursive call on the text it was
\* called with repeats for ever: the call never returns (the stack overflows).
RECURSIVE parse_date(_, _)
parse_date(datefields, pattern) ==
  LET r == parse_date_body(datefields, pattern)
  IN IF r.tag # "Recurse" THEN r
     ELSE IF r.datefields = datefields THEN Overflow
     ELSE parse_date(r.datefields, pattern)

\* ------------------------------------------------------------- the window
WordMax == Pow2(WordBits)

\* a signed value cast to the unsigned word (as u64)
AsWord(x) == x % WordMax

\* date.naive_local().timestamp() as u64, of a date parsed as UTC
get_timestamp(ts) == ts

\* ---------------------------------------------------------------- process_line
Ok(v) == [tag |-> "Ok", v |-> v]
ErrNotUtf8 == [tag |-> "Err", err |-> "file not utf8"]
ErrTooOld == [tag |-> "Err", err |-> "timestamp in line too old"]

\* str::from_utf8(bytes).is_err()
NotUtf8(bytes) == \E i \in 1..Len(bytes) : bytes[i] = BAD

\* conf.re.captures_from_pos(line, 0).is_some(), for a pattern of literal
\* characters: the pattern occurs somewhere in the line
is_match(re, line) ==
  \E i \in 1..(Len(line) - Len(re) + 1) : SubSeq(line, i, i + Len(re) - 1) = re

\* the number of white-space separated tokens of the date pattern
whitespaces_in_date(conf) == Len(split_whitespace(conf.date_pattern))

\* a line stamped with the boundary itself is too old as well
too_old_Inclusive(oldest_ts, ts_line) == oldest_ts >= ts_line

\* line 279: oldest_ts > ts_line
too_old(oldest_ts, ts_line) == oldest_ts > ts_line

process_line(bytes, whitespaces_in_datefields, oldest_ts, conf) ==
  IF Len(bytes) = 0 THEN Ok(FALSE)
  ELSE IF NotUtf8(bytes) THEN ErrNotUtf8
  ELSE LET line == Trim(bytes)
           split == split_whitespace(line)
           from == conf.timeposition
           to == conf.timeposition + whitespaces_in_datefields
       IN IF Len(line) = 0 THEN Ok(FALSE)
          ELSE IF to > Len(split) THEN Ok(FALSE)
          ELSE LET date == parse_date(join(SubSeq(split, from + 1, to)),
                                      conf.date_pattern)
               IN CASE date.tag = "None" -> Ok(FALSE)
                    [] date.tag = "Overflow" -> Overflow
                    [] date.tag = "Some" ->
                         IF too_old(oldest_ts, get_timestamp(date.ts)) THEN ErrTooOld
                         ELSE Ok(is_match(conf.re, line))

\* ------------------------------------------------------------ the time window
\* What a computation of the boundary yields: a value, or a panic.
Value(v) == [panic |-> FALSE, v |-> v]
Panic == [panic |-> TRUE, v |-> 0]

\* get_oldest_allowed_utc_ts.  60 * interval_to_check is a product of machine
\* words: a build with overflow checks panics when it overflows, a build
\* without them keeps the low bits.  The set of the outcomes.
get_oldest_allowed_utc_ts(interval_to_check, now_unix_ts) ==
  LET product == 60 * interval_to_check
      go_back_secs == product % WordMax
      value == IF go_back_secs > now_unix_ts THEN 0 ELSE now_unix_ts - go_back_secs
  IN IF product >= WordMax THEN {Panic, Value(value)} ELSE {Value(value)}

\* adjust_to_local_tz and get_timestamp_from_local: the instant is taken as
\* UTC, the local offset is attached, and the seconds of the local wall clock
\* are cast to the unsigned word
get_timestamp_from_local(utc_secs, local_offset) == AsWord(utc_secs + local_offset)

get_oldest_allowed_local_ts(interval_to_check, now_unix_ts, local_offset) ==
  { IF u.panic THEN Panic ELSE Value(get_timestamp_from_local(u.v, local_offset)) :
      u \in get_oldest_allowed_utc_ts(interval_to_check, now_unix_ts) }

\* a file exactly interval_to_check minutes old is too old
check_file_age_Strict(interval_to_check, elapsed_secs) ==
  elapsed_secs < interval_to_check * 60

\* check_file_age, of a file whose metadata and modification time were read
check_file_age(interval_to_check, elapsed_secs) ==
  LET secs_allowed == interval_to_check * 60
  IN elapsed_secs <= secs_allowed

\* ------------------------------------------------------------ configuration
\* The configuration of the runs: the last minute is checked, the date is the
\* word at timeposition in the format %s, the pattern is the literal 8.
ScanConf(timeposition) ==
  [interval_to_check |-> 1, re |-> <<"8">>, date_pattern |-> <<ItemTimestamp>>,
   timeposition |-> timeposition]

\* the clock of the runs: 68 seconds after the epoch, in a zone at UTC
ScanClock == [now |-> 68, local_offset |-> 0]

Bytes == {NL, SP, "3", "8", "f", BAD}

\* the bytes of the longer files: dates, newlines, invalid bytes
CoreBytes == {NL, "3", "8", BAD}

Buffers(alphabet, n) == UNION {[1..k -> alphabet] : k \in 0..n}

\* What the file system holds for a candidate path.  fs is "file" for a
\* regular file that can be stat'ed, opened and mapped, "dir" for a path that
\* opens and is no regular file, "globerr" for an entry the glob iterator
\* yields as an error, "nometa" when fs::metadata fails, "future" when the
\* modification time lies after the clock, "noopen" when File::open fails,
\* "huge" for more bytes than isize::MAX, "nomap" when the mapping fails.
FsErrors == {"globerr", "nometa", "future", "noopen", "huge", "nomap"}

File(fs, elapsed, bytes) == [fs |-> fs, elapsed |-> elapsed, bytes |-> bytes]

\* modification ages, in seconds: at the limit of one minute, beyond it
Ages == {60, 61}

SingleFiles ==
  {File("file", 60, b) : b \in Buffers(CoreBytes, MaxLen)}
    \cup {File("file", e, b) : e \in Ages, b \in Buffers(Bytes, MaxTextLen)}
    \cup {File(k, 60, <<>>) : k \in FsErrors \cup {"dir"}}

\* the files of the runs over several candidates
Fixtures ==
  {File("file", 60, <<"8", NL>>), File("file", 60, <<"3", NL, "8", NL>>),
   File("file", 60, <<"3", NL>>), File("file", 60, <<BAD, NL, "8">>),
   File("file", 60, <<>>), File("file", 61, <<"8", NL>>),
   File("dir", 60, <<>>), File("globerr", 60, <<>>),
   File("nometa", 60, <<>>), File("noopen", 60, <<>>)}

Candidates ==
  {<<>>} \cup {<<f>> : f \in SingleFiles}
    \cup UNION {[1..k -> Fixtures] : k \in 2..MaxFiles}

\* ----------------------------------------------------------------- state
VARIABLES
  conf,             \* the Config of the run
  cands,            \* the entries the glob iterator yields, in order
  rpc,              \* where run is
  entry,            \* the entries taken from the iterator so far
  oldest_ts,        \* run: the window boundary
  matches,          \* run: the running total of matches
  files_processed,  \* run: the running count of files
  ret,              \* process_file: what the call returned to run
  last_printed,     \* process_file: the end of the next line
  index,            \* process_file: the cursor
  file_matches,     \* process_file: its local matches
  yielded,          \* the ranges <<from, to>> handed to process_line, in order
  stop,             \* why the scan of the file ended
  dpc,              \* where a call of parse_date is
  dtext,            \* parse_date: the text of the outermost call
  datefields,       \* parse_date: the text of the innermost call
  pattern,          \* parse_date: the format
  depth,            \* parse_date: the activations on the stack
  dres,             \* parse_date: what the call returned
  tpc,              \* where the computation of the boundary is
  now,              \* the clock, in seconds since the epoch
  interval,         \* interval_to_check, in minutes
  local_offset,     \* the offset of the local zone, in seconds
  utc_res,          \* what get_oldest_allowed_utc_ts returned
  local_res,        \* what get_oldest_allowed_local_ts returned
  mpc,              \* where the driver is
  argv,             \* the values of the command line flags
  parsed,           \* what Config::new returned
  res,              \* main: what run returned
  status,           \* the word the status message starts with
  exit_code,        \* the exit status of the process
  runs,             \* the calls of run so far
  first             \* what the first call of run ended with

scanVars == <<conf, cands, rpc, entry, oldest_ts, matches, files_processed,
              ret, last_printed, index, file_matches, yielded, stop>>

dateVars == <<dpc, dtext, datefields, pattern, depth, dres>>

timeVars == <<tpc, now, interval, local_offset, utc_res, local_res>>

mainVars == <<mpc, argv, parsed, res, status, exit_code>>

callVars == <<runs, first>>

vars == <<scanVars, dateVars, timeVars, mainVars, callVars>>

\* the entry run is handling
Cur == cands[entry]
file == Cur.bytes

NoRet == [tag |-> "none"]
RetOk(n) == [tag |-> "Ok", matches |-> n]
RetErr(e, n) == [tag |-> "Err", err |-> e, matches |-> n]

\* no call of parse_date is modelled
DateIdle ==
  /\ dpc = "idle"
  /\ dtext = <<>>
  /\ datefields = <<>>
  /\ pattern = <<>>
  /\ depth = 0
  /\ dres = None

\* no computation of the boundary is modelled
TimeIdle ==
  /\ tpc = "idle"
  /\ now = 0
  /\ interval = 1
  /\ local_offset = 0
  /\ utc_res = Value(0)
  /\ local_res = Value(0)

\* Config::new has not been called, run has not returned
NoConfig == [tag |-> "none"]
NoResult == [tag |-> "none"]

\* the driver is not modelled
MainIdle ==
  /\ mpc = "idle"
  /\ argv = [filename |-> ""]
  /\ parsed = NoConfig
  /\ res = NoResult
  /\ status = ""
  /\ exit_code = 0

\* what a call of run ended with; NoOutcome before the first call has ended
NoOutcome == [end |-> "none", matches |-> 0, files_processed |-> 0]

\* run is called for the first time
FirstCall ==
  /\ runs = 1
  /\ first = NoOutcome

\* ------------------------------------------------------------------- run
ScanInit ==
  /\ conf \in {ScanConf(tp) : tp \in {0, 1}}
  /\ cands \in Candidates
  /\ rpc = "start"
  /\ entry = 0
  /\ oldest_ts = 0
  /\ matches = 0
  /\ files_processed = 0
  /\ ret = NoRet
  /\ last_printed = 0
  /\ index = 0
  /\ file_matches = 0
  /\ yielded = <<>>
  /\ stop = "none"

fileVars == <<ret, last_printed, index, file_matches, yielded, stop>>

\* the totals of an earlier call are kept
StartTotals_Kept == <<matches, files_processed>>

\* run, lines 103 and 108: <<matches, files_processed>> of a call that starts
StartTotals == <<0, 0>>

\* run, lines 103-125: the totals start at 0 and the boundary is computed
RunStart ==
  /\ rpc = "start"
  /\ \E t \in get_oldest_allowed_local_ts(conf.interval_to_check, ScanClock.now,
                                          ScanClock.local_offset) :
       IF t.panic
       THEN /\ rpc' = "panic"
            /\ UNCHANGED oldest_ts
       ELSE /\ rpc' = "loop"
            /\ oldest_ts' = t.v
  /\ matches' = StartTotals[1]
  /\ files_processed' = StartTotals[2]
  /\ UNCHANGED <<dateVars, timeVars, mainVars, callVars, conf, cands, entry, fileVars>>

\* the next entry of the glob iterator is taken; the state of the last call
\* of process_file is gone
TakeEntry ==
  /\ entry' = entry + 1
  /\ ret' = NoRet
  /\ last_printed' = 0
  /\ index' = 0
  /\ file_matches' = 0
  /\ yielded' = <<>>
  /\ stop' = "none"

\* run, line 152: an entry that is an error is reported, the loop goes on
RunEntryErr ==
  /\ rpc = "loop"
  /\ entry < Len(cands)
  /\ cands[entry + 1].fs = "globerr"
  /\ TakeEntry
  /\ rpc' = "loop"
  /\ UNCHANGED <<dateVars, timeVars, mainVars, callVars, conf, cands, oldest_ts, matches, files_processed>>

\* check_file_age, lines 299-301: expect and unwrap panic when the metadata
\* or the elapsed time cannot be had
RunCheckAgePanic ==
  /\ rpc = "loop"
  /\ entry < Len(cands)
  /\ cands[entry + 1].fs \in {"nometa", "future"}
  /\ TakeEntry
  /\ rpc' = "panic"
  /\ UNCHANGED <<dateVars, timeVars, mainVars, callVars, conf, cands, oldest_ts, matches, files_processed>>

\* run, lines 133-138: a file modified too long ago is skipped
RunSkipOld ==
  /\ rpc = "loop"
  /\ entry < Len(cands)
  /\ cands[entry + 1].fs \notin {"globerr", "nometa", "future"}
  /\ ~check_file_age(conf.interval_to_check, cands[entry + 1].elapsed)
  /\ TakeEntry
  /\ rpc' = "loop"
  /\ UNCHANGED <<dateVars, timeVars, mainVars, callVars, conf, cands, oldest_ts, matches, files_processed>>

\* run, line 140: process_file is called on a file that is recent enough
RunCallProcessFile ==
  /\ rpc = "loop"
  /\ entry < Len(cands)
  /\ cands[entry + 1].fs \notin {"globerr", "nometa", "future"}
  /\ check_file_age(conf.interval_to_check, cands[entry + 1].elapsed)
  /\ TakeEntry
  /\ rpc' = "open"
  /\ UNCHANGED <<dateVars, timeVars, mainVars, callVars, conf, cands, oldest_ts, matches, files_processed>>

\* -------------------------------------------------------------- process_file
\* process_file, lines 181-199: expect panics when the file cannot be opened
\* or mapped, and the length check panics on a file too large to map
ProcessFilePanic ==
  /\ rpc = "open"
  /\ Cur.fs \in {"noopen", "huge", "nomap"}
  /\ rpc' = "panic"
  /\ UNCHANGED <<dateVars, timeVars, mainVars, callVars, conf, cands, entry, oldest_ts, matches, files_processed, fileVars>>

\* process_file, lines 183-196: no regular file, or no bytes
ProcessFileReject ==
  /\ rpc = "open"
  /\ \/ /\ Cur.fs = "dir"
        /\ ret' = RetErr("not a file", 0)
     \/ /\ Cur.fs = "file"
        /\ Len(file) = 0
        /\ ret' = RetErr("file empty", 0)
  /\ rpc' = "ret"
  /\ UNCHANGED <<dateVars, timeVars, mainVars, callVars, conf, cands, entry, oldest_ts, matches, files_processed,
                 last_printed, index, file_matches, yielded, stop>>

\* process_file, lines 198-205: the file is mapped, the cursor is on its last byte
ProcessFileMap ==
  /\ rpc = "open"
  /\ Cur.fs = "file"
  /\ Len(file) # 0
  /\ last_printed' = Len(file)
  /\ index' = Len(file) - 1
  /\ file_matches' = 0
  /\ rpc' = "scan"
  /\ UNCHANGED <<dateVars, timeVars, mainVars, callVars, conf, cands, entry, oldest_ts, matches, files_processed,
                 ret, yielded, stop>>

\* the start of the buffer is no boundary
AtBoundary_NoStart(bytes, i) == i # -1 /\ bytes[i + 1] = NL

\* line 207: the cursor is before the first byte or on a newline (file[i] of
\* the source is bytes[i + 1] here)
AtBoundary(bytes, i) == i = -1 \/ bytes[i + 1] = NL

\* the line without the newline that ends it
LineRange_NoNewline(i, last) == <<i + 1, IF last > i + 1 THEN last - 1 ELSE last>>

\* line 208: &file[(index + 1)..last_printed], as <<from, to>> with to exclusive
LineRange(i, last) == <<i + 1, last>>

Slice(bytes, range) == SubSeq(bytes, range[1] + 1, range[2])

\* the return of line 225, which the source has commented out
ReturnOnErr_AsErr(err, n) == RetErr(err, n)

\* the matches counted so far are dropped
ReturnOnErr_Zero(err, n) == RetOk(0)

\* lines 216-227: what process_file returns when process_line returned Err
ReturnOnErr(err, n) == RetOk(n)

StopReason(err) == IF err = ErrNotUtf8.err THEN "utf8" ELSE "old"

\* process_file, lines 206-234: one iteration of the while loop
ScanStep ==
  /\ rpc = "scan"
  /\ index >= -1
  /\ IF AtBoundary(file, index)
     THEN LET range == LineRange(index, last_printed)
              r == process_line(Slice(file, range), whitespaces_in_date(conf),
                                oldest_ts, conf)
          IN /\ yielded' = Append(yielded, range)
             /\ CASE r.tag = "Ok" ->
                       /\ file_matches' = IF r.v THEN file_matches + 1 ELSE file_matches
                       /\ last_printed' = index + 1
                       /\ index' = index - 1
                       /\ UNCHANGED <<rpc, ret, stop>>
                  [] r.tag = "Err" ->
                       /\ ret' = ReturnOnErr(r.err, file_matches)
                       /\ stop' = StopReason(r.err)
                       /\ rpc' = "ret"
                       /\ UNCHANGED <<file_matches, last_printed, index>>
                  [] r.tag = "Overflow" ->
                       /\ rpc' = "overflow"
                       /\ UNCHANGED <<ret, stop, file_matches, last_printed, index>>
     ELSE /\ index' = index - 1
          /\ UNCHANGED <<rpc, ret, stop, file_matches, last_printed, yielded>>
  /\ UNCHANGED <<dateVars, timeVars, mainVars, callVars, conf, cands, entry, oldest_ts, matches, files_processed>>

\* process_file, line 236: the cursor has passed the start of the file
ProcessFileReturn ==
  /\ rpc = "scan"
  /\ index < -1
  /\ ret' = RetOk(file_matches)
  /\ stop' = "eof"
  /\ rpc' = "ret"
  /\ UNCHANGED <<dateVars, timeVars, mainVars, callVars, conf, cands, entry, oldest_ts, matches, files_processed,
                 last_printed, index, file_matches, yielded>>

\* every call that returned counts as a processed file
Collect_CountingErr(local_matches, m, processed) ==
  <<m + local_matches.matches, processed + 1>>

\* the matches of the file take the place of the total
Collect_Replacing(local_matches, m, processed) ==
  IF local_matches.tag = "Ok"
  THEN <<local_matches.matches, processed + 1>>
  ELSE <<m, processed>>

\* run, lines 141-150: <<matches, files_processed>> after a call returned
Collect(local_matches, m, processed) ==
  IF local_matches.tag = "Ok"
  THEN <<m + local_matches.matches, processed + 1>>
  ELSE <<m + local_matches.matches, processed>>

RunCollect ==
  /\ rpc = "ret"
  /\ matches' = Collect(ret, matches, files_processed)[1]
  /\ files_processed' = Collect(ret, matches, files_processed)[2]
  /\ rpc' = "loop"
  /\ UNCHANGED <<dateVars, timeVars, mainVars, callVars, conf, cands, entry, oldest_ts, fileVars>>

\* run, line 155: the iterator is exhausted
RunReturn ==
  /\ rpc = "loop"
  /\ entry = Len(cands)
  /\ rpc' = "done"
  /\ UNCHANGED <<dateVars, timeVars, mainVars, callVars, conf, cands, entry, oldest_ts, matches, files_processed, fileVars>>

ScanNext ==
  \/ RunStart
  \/ RunEntryErr
  \/ RunCheckAgePanic
  \/ RunSkipOld
  \/ RunCallProcessFile
  \/ ProcessFilePanic
  \/ ProcessFileReject
  \/ ProcessFileMap
  \/ ScanStep
  \/ ProcessFileReturn
  \/ RunCollect
  \/ RunReturn

Init == ScanInit /\ DateIdle /\ TimeIdle /\ MainIdle /\ FirstCall
Next == ScanNext
Spec == Init /\ [][Next]_vars

\* ------------------------------------------------------------- run, twice
\* what the call of run has ended with: its totals, or no totals when the
\* process was aborted
Outcome ==
  [end |-> rpc,
   matches |-> IF rpc = "done" THEN matches ELSE 0,
   files_processed |-> IF rpc = "done" THEN files_processed ELSE 0]

\* The caller calls run once more, with the same Config, over the same files
\* and at the same clock (the tests call run with one Config after another in
\* one process).  What the first call left in the variables is still there.
RunAgain ==
  /\ rpc \in {"done", "panic", "overflow"}
  /\ runs = 1
  /\ first' = Outcome
  /\ runs' = 2
  /\ rpc' = "start"
  /\ entry' = 0
  /\ UNCHANGED <<dateVars, timeVars, mainVars, conf, cands, oldest_ts, matches,
                 files_processed, fileVars>>

TwiceNext ==
  \/ ScanNext
  \/ RunAgain

SpecTwice == Init /\ [][TwiceNext]_vars

\* -------------------------------------------------------- calls of parse_date
DateChars == YearNumerals \cup MonthDayTimes \cup FractionNumerals \cup {COMMA, SP}

DatePatterns ==
  {<<ItemMonthDayTime>>, <<ItemYear, SP, ItemMonthDayTime>>}

DateInit ==
  /\ dpc = "call"
  /\ dtext \in Buffers(DateChars, MaxDateLen)
  /\ datefields = dtext
  /\ pattern \in DatePatterns
  /\ depth = 1
  /\ dres = None

\* parse_date returns a date or None
ParseDateReturn ==
  /\ dpc = "call"
  /\ parse_date_body(datefields, pattern).tag # "Recurse"
  /\ dres' = parse_date_body(datefields, pattern)
  /\ dpc' = "done"
  /\ UNCHANGED <<scanVars, timeVars, mainVars, callVars, dtext, datefields, pattern, depth>>

\* utils.rs line 69: parse_date calls itself on the text before the comma
ParseDateRecurse ==
  /\ dpc = "call"
  /\ parse_date_body(datefields, pattern).tag = "Recurse"
  /\ depth < MaxDepth
  /\ datefields' = parse_date_body(datefields, pattern).datefields
  /\ depth' = depth + 1
  /\ UNCHANGED <<scanVars, timeVars, mainVars, callVars, dpc, dtext, pattern, dres>>

\* the same call with no room left on the stack: the process is aborted
ParseDateOverflow ==
  /\ dpc = "call"
  /\ parse_date_body(datefields, pattern).tag = "Recurse"
  /\ depth >= MaxDepth
  /\ dpc' = "overflow"
  /\ UNCHANGED <<scanVars, timeVars, mainVars, callVars, dtext, datefields, pattern, depth, dres>>

ScanIdle ==
  /\ conf = ScanConf(0)
  /\ cands = <<>>
  /\ rpc = "idle"
  /\ entry = 0
  /\ oldest_ts = 0
  /\ matches = 0
  /\ files_processed = 0
  /\ ret = NoRet
  /\ last_printed = 0
  /\ index = 0
  /\ file_matches = 0
  /\ yielded = <<>>
  /\ stop = "none"

DateNext ==
  \/ ParseDateReturn
  \/ ParseDateRecurse
  \/ ParseDateOverflow

InitDate == DateInit /\ ScanIdle /\ TimeIdle /\ MainIdle /\ FirstCall

SpecDate == InitDate /\ [][DateNext]_vars

\* ------------------------------------------------ computations of the boundary
\* the offsets of the local zone: west of, at and east of UTC
Offsets == {-20, 0, 20}

TimeInit ==
  /\ tpc = "start"
  /\ now \in 0..(WordMax - 1)
  /\ interval \in 1..MaxInterval
  /\ local_offset \in Offsets
  /\ utc_res = Value(0)
  /\ local_res = Value(0)

ComputeUtc ==
  /\ tpc = "start"
  /\ utc_res' \in get_oldest_allowed_utc_ts(interval, now)
  /\ tpc' = "utc"
  /\ UNCHANGED <<scanVars, dateVars, mainVars, callVars, now, interval, local_offset, local_res>>

ComputeLocal ==
  /\ tpc = "utc"
  /\ local_res' \in get_oldest_allowed_local_ts(interval, now, local_offset)
  /\ tpc' = "local"
  /\ UNCHANGED <<scanVars, dateVars, mainVars, callVars, now, interval, local_offset, utc_res>>

TimeNext ==
  \/ ComputeUtc
  \/ ComputeLocal

InitTime == TimeInit /\ ScanIdle /\ DateIdle /\ MainIdle /\ FirstCall

SpecTime == InitTime /\ [][TimeNext]_vars

\* ------------------------------------------------------------------ the driver
\* the string Config::new puts in the place of an empty date pattern
DefaultDatePattern == "%Y-%m-%d %H:%M:%S"

StdinPath == "-"

ConfigOk(c) == [tag |-> "Ok", conf |-> c]
ConfigErr(e) == [tag |-> "Err", err |-> e]

\* Config::new of lib.rs, lines 65-99: the arguments as a record of the fields
\* of Config (re is the compiled search_pattern and is left out)
Config_new(a) ==
  IF a.filename = StdinPath THEN ConfigErr("stdin as path is not supported")
  ELSE ConfigOk([a EXCEPT !.date_pattern =
                   IF a.date_pattern = "" THEN DefaultDatePattern ELSE a.date_pattern])

\* the values the flags of the command line can carry
Argvs ==
  [interval_to_check : 0..1,
   search_pattern : {"", "8"},
   filename : {"", StdinPath, "file"},
   max_critical_matches : 0..MaxThreshold,
   max_warning_matches : 0..MaxThreshold,
   date_pattern : {"", ItemTimestamp},
   timeposition : {0},
   debug : {FALSE},
   verbose : {FALSE}]

RunOk(m, f) == [tag |-> "Ok", matches |-> m, files_matched |-> f]
RunPanic == [tag |-> "panic"]

\* What run hands to the driver: totals, where matches were found only if a
\* file was processed, or a panic.  run has no return of Err.
RunResults ==
  {r \in {RunOk(m, f) : m \in 0..MaxMatches, f \in 0..MaxFiles} :
      r.files_matched = 0 => r.matches = 0}
    \cup {RunPanic}

Report(word, code) == [status |-> word, exit_code |-> code]

\* the warning threshold is looked at first
report_WarningFirst(r, c) ==
  IF r.tag = "Err" THEN Report("ERROR", 1)
  ELSE IF r.matches >= c.max_warning_matches THEN Report("WARNING", 1)
  ELSE IF r.matches >= c.max_critical_matches THEN Report("CRITICAL", 1)
  ELSE IF r.files_matched = 0 THEN Report("UNKNOWN", 3)
  ELSE Report("OK", 0)

\* main, lines 20-48: the message and the exit status for what run returned
report(r, c) ==
  IF r.tag = "Err" THEN Report("ERROR", 1)
  ELSE IF r.matches >= c.max_critical_matches THEN Report("CRITICAL", 1)
  ELSE IF r.matches >= c.max_warning_matches THEN Report("WARNING", 1)
  ELSE IF r.files_matched = 0 THEN Report("UNKNOWN", 3)
  ELSE Report("OK", 0)

MainInit ==
  /\ mpc = "start"
  /\ argv \in Argvs
  /\ parsed = NoConfig
  /\ res = NoResult
  /\ status = ""
  /\ exit_code = 0

\* args::parse, lines 127-152: the three checks, each ending the process with
\* status 3, and then Config::new
ArgsParse ==
  /\ mpc = "start"
  /\ IF argv.filename = "" \/ argv.search_pattern = "" \/ argv.interval_to_check < 1
     THEN /\ status' = IF argv.filename = "" THEN "no -logfile"
                       ELSE IF argv.search_pattern = "" THEN "no -pattern"
                       ELSE "interval needs to be set and be >= 1"
          /\ exit_code' = 3
          /\ mpc' = "exit"
          /\ UNCHANGED parsed
     ELSE /\ parsed' = Config_new(argv)
          /\ mpc' = "main"
          /\ UNCHANGED <<status, exit_code>>
  /\ UNCHANGED <<scanVars, dateVars, timeVars, callVars, argv, res>>

\* a program that uses the library calls Config::new on values of its own
\* (lib.rs, lines 9-19 and 390-400)
ConfigNew ==
  /\ mpc = "start"
  /\ parsed' = Config_new(argv)
  /\ mpc' = "main"
  /\ UNCHANGED <<scanVars, dateVars, timeVars, callVars, argv, res, status, exit_code>>

\* main, lines 9-17: without a Config the process ends
MainConf ==
  /\ mpc = "main"
  /\ IF parsed.tag = "Err"
     THEN /\ status' = "ERROR while parsing the arguments"
          /\ exit_code' = 1
          /\ mpc' = "exit"
     ELSE /\ mpc' = "run"
          /\ UNCHANGED <<status, exit_code>>
  /\ UNCHANGED <<scanVars, dateVars, timeVars, callVars, argv, parsed, res>>

\* main, line 19: run is called; a panic inside it ends the process with the
\* status of a panic
MainRun ==
  /\ mpc = "run"
  /\ res' \in RunResults
  /\ IF res'.tag = "panic"
     THEN /\ status' = "panicked"
          /\ exit_code' = 101
          /\ mpc' = "exit"
     ELSE /\ mpc' = "report"
          /\ UNCHANGED <<status, exit_code>>
  /\ UNCHANGED <<scanVars, dateVars, timeVars, callVars, argv, parsed>>

MainReport ==
  /\ mpc = "report"
  /\ status' = report(res, parsed.conf).status
  /\ exit_code' = report(res, parsed.conf).exit_code
  /\ mpc' = "exit"
  /\ UNCHANGED <<scanVars, dateVars, timeVars, callVars, argv, parsed, res>>

MainNext ==
  \/ ArgsParse
  \/ ConfigNew
  \/ MainConf
  \/ MainRun
  \/ MainReport

InitMain == MainInit /\ ScanIdle /\ DateIdle /\ TimeIdle /\ FirstCall

SpecMain == InitMain /\ [][MainNext]_vars

\* ======================================================================
\* The lines of a file, as a reader of the file counts them
\* ======================================================================
\* the texts between the newlines of a file, in file order
RECURSIVE SplitLinesFrom(_, _, _)
SplitLinesFrom(bytes, line, acc) ==
  IF bytes = <<>> THEN Append(acc, line)
  ELSE IF Head(bytes) = NL
       THEN SplitLinesFrom(Tail(bytes), <<>>, Append(acc, line))
       ELSE SplitLinesFrom(Tail(bytes), Append(line, Head(bytes)), acc)

SplitLines(bytes) == SplitLinesFrom(bytes, <<>>, <<>>)

\* line j of a file, counted from its end
FromEnd(bytes, j) == SplitLines(bytes)[Len(SplitLines(bytes)) - j + 1]

\* what process_line makes of a line under the configuration of the run
Verdict(line) == process_line(line, whitespaces_in_date(conf), oldest_ts, conf)

\* the lines, counted from the end, whose parsed timestamp is older than the window
TooOldLines(bytes) ==
  {j \in 1..Len(SplitLines(bytes)) : Verdict(FromEnd(bytes, j)) = ErrTooOld}

\* the lines, counted from the end, that are not valid UTF-8
BadLines(bytes) ==
  {j \in 1..Len(SplitLines(bytes)) : NotUtf8(FromEnd(bytes, j))}

Least(S) == CHOOSE j \in S : \A k \in S : j <= k

\* the matching lines among the last n lines
MatchingAmongLast(bytes, n) ==
  Cardinality({j \in 1..n : Verdict(FromEnd(bytes, j)) = Ok(TRUE)})

\* a call of process_file on a mapped file has returned to run
Returned ==
  rpc \in {"ret", "loop", "done"} /\ entry >= 1 /\ Cur.fs = "file" /\ ret.tag # "none"

\* ---------------------------------------------------------------------- C1
\* C1 as stated: in every file in which line K from the end is the first line
\* older than the window, process_file returns the number of matching lines
\* among the last K-1 lines.
C1_AsStated ==
  (Returned /\ TooOldLines(file) # {}) =>
     ret = RetOk(MatchingAmongLast(file, Least(TooOldLines(file)) - 1))

\* C1, amended: when line K from the end is the first line older than the
\* window and none of the last K-1 lines is invalid UTF-8, process_file hands
\* exactly the last K lines to process_line, stops at line K, returns Ok with
\* the number of matching lines among the last K-1 lines, and run counts the
\* file as processed.
C1_EarlyTermination ==
  LET K == Least(TooOldLines(file))
  IN (Returned /\ TooOldLines(file) # {} /\ \A j \in BadLines(file) : j > K) =>
       /\ ret = RetOk(MatchingAmongLast(file, K - 1))
       /\ stop = "old"
       /\ Len(yielded) = K
       /\ (rpc # "ret" /\ Len(cands) = 1) =>
            (matches = MatchingAmongLast(file, K - 1) /\ files_processed = 1)

C1_Witness ==
  /\ rpc = "done"
  /\ Len(cands) = 1
  /\ stop = "old"
  /\ Least(TooOldLines(file)) = 3
  /\ Len(SplitLines(file)) > 3
  /\ matches = 1
  /\ files_processed = 1

\* ---------------------------------------------------------------------- C2
\* the scan of the file ran to the start of the file
FullScan == Returned /\ stop = "eof"

CountNewlines(bytes) == Cardinality({i \in 1..Len(bytes) : bytes[i] = NL})

EndsWithNewline(bytes) == bytes # <<>> /\ bytes[Len(bytes)] = NL

\* the lines of a non-empty file: a last line needs no newline to count
LineCount(bytes) ==
  CountNewlines(bytes) + (IF EndsWithNewline(bytes) THEN 0 ELSE 1)

\* the yielded ranges, last yielded first, put together again
RECURSIVE Reassembled(_, _)
Reassembled(bytes, ranges) ==
  IF ranges = <<>> THEN <<>>
  ELSE Slice(bytes, ranges[Len(ranges)])
         \o Reassembled(bytes, SubSeq(ranges, 1, Len(ranges) - 1))

\* C2 as stated: a scan of a file of N lines that is not stopped early yields
\* exactly N ranges, whose concatenation in file order is the file.
C2_AsStated ==
  FullScan => (Len(yielded) = LineCount(file) /\ Reassembled(file, yielded) = file)

\* C2, amended: a scan that is not stopped early yields one range per newline
\* plus one, that is N ranges for a file of N lines that does not end in a
\* newline and N+1 for one that does, the first yielded range then being
\* empty; the ranges are yielded last line first, each ending where the one
\* before it began, and their concatenation in file order is the file.
C2_RoundTrip ==
  FullScan =>
    /\ Len(yielded) = LineCount(file) + (IF EndsWithNewline(file) THEN 1 ELSE 0)
    /\ EndsWithNewline(file) => yielded[1] = <<Len(file), Len(file)>>
    /\ yielded[1][2] = Len(file)
    /\ yielded[Len(yielded)][1] = 0
    /\ \A i \in 2..Len(yielded) : yielded[i][2] = yielded[i - 1][1]
    /\ \A i \in 1..Len(yielded) : yielded[i][1] <= yielded[i][2]
    /\ Reassembled(file, yielded) = file

C2_Witness ==
  /\ FullScan
  /\ Len(yielded) = 3
  /\ EndsWithNewline(file)
  /\ LineCount(file) = 2
  /\ Len(file) = 4

\* ---------------------------------------------------------------------- C4
\* C4 as stated: a line that is not valid UTF-8 ends the scan at once and the
\* file contributes no match.
C4_AsStated ==
  (Returned /\ stop = "utf8") =>
    (Len(yielded) = Least(BadLines(file)) /\ ret.matches = 0)

\* C4, amended: a line that is not valid UTF-8 ends the scan at once, no line
\* before it in the file is handed to process_line, and the file contributes
\* the matches counted among the lines after it in the file (0 only when
\* none of them matched).
C4_NotUtf8Stops ==
  LET B == Least(BadLines(file))
  IN (Returned /\ stop = "utf8") =>
       /\ Len(yielded) = B
       /\ NotUtf8(Slice(file, yielded[B]))
       /\ ret.matches = MatchingAmongLast(file, B - 1)
       /\ (rpc # "ret" /\ Len(cands) = 1) => matches = MatchingAmongLast(file, B - 1)

C4_Witness ==
  /\ rpc = "done"
  /\ Len(cands) = 1
  /\ stop = "utf8"
  /\ Least(BadLines(file)) = 2
  /\ Len(SplitLines(file)) = 3
  /\ Len(yielded) = 2
  /\ matches = 1

\* ---------------------------------------------------------------------- C5
\* C5: a file whose scan was abandoned at a line that is not valid UTF-8 is
\* not counted in files_processed; a run over one such file ends with
\* files_processed = 0.
C5_BinaryNotProcessed ==
  (rpc = "done" /\ Len(cands) = 1 /\ stop = "utf8") => files_processed = 0

\* ---------------------------------------------------------------------- C6
Rejected == Cur.fs = "dir" \/ (Cur.fs = "file" /\ Len(file) = 0)

\* C6: a candidate that is no regular file or has no bytes yields Err with 0
\* matches, nothing of it is scanned, the totals of run stay as they were and
\* the loop goes on; a run over one empty file returns (0, 0).
C6_RejectedNotCounted ==
  /\ []((rpc = "done" /\ Len(cands) = 1 /\ cands[1] = File("file", 60, <<>>))
          => (matches = 0 /\ files_processed = 0))
  /\ [][/\ (rpc = "open" /\ Rejected) =>
             (rpc' = "ret" /\ ret'.tag = "Err" /\ ret'.matches = 0 /\ yielded' = <<>>)
        /\ (rpc = "ret" /\ Rejected) =>
             (rpc' = "loop" /\ matches' = matches
                /\ files_processed' = files_processed)]_vars

C6_Witness ==
  /\ rpc = "done"
  /\ Len(cands) = 2
  /\ cands[1] = File("file", 60, <<>>)
  /\ matches = 1
  /\ files_processed = 1

\* ---------------------------------------------------------------------- C7
\* C7: a candidate whose metadata cannot be read or that cannot be opened or
\* mapped never aborts the run.
C7_FsErrorSkipped ==
  ~(rpc = "panic" /\ entry >= 1 /\ Cur.fs \in {"nometa", "noopen", "nomap"})

\* --------------------------------------------------------------------- C10
\* the entry run takes next is a path whose age check_file_age can read
NextHasAge ==
  /\ rpc = "loop"
  /\ entry < Len(cands)
  /\ cands[entry + 1].fs \notin {"globerr", "nometa", "future"}

BeforeComma(text) == SubSeq(text, 1, find_comma(text))

\* the strategies of the claim, in their order: the text as it is; when that
\* fails with trailing input, the text before its first comma; then that text
\* behind the year 2018; then None
Strategies(text, fmt) ==
  LET direct == datetime_from_str(text, fmt)
      t == IF ~direct.ok /\ direct.err = TOO_LONG THEN BeforeComma(text) ELSE text
      retry == datetime_from_str(t, fmt)
      prefixed == datetime_from_str(<<"2018", SP>> \o t, <<ItemYear, SP>> \o fmt)
  IN IF direct.ok THEN Some(direct.ts)
     ELSE IF retry.ok THEN Some(retry.ts)
     ELSE IF prefixed.ok THEN Some(prefixed.ts)
     ELSE None

\* C3: every call of parse_date ends, and with the result of the first of its
\* strategies that succeeds, None when none does.
C3_StrategyOrder ==
  dpc \in {"done", "overflow"} =>
    (dpc = "done" /\ dres = Strategies(dtext, pattern))

\* ---------------------------------------------------------------------- C8
Floor0(x) == IF x < 0 THEN 0 ELSE x

\* C8: get_oldest_allowed_utc_ts returns now - interval * 60, or 0 when that
\* is negative, and never more than now.
C8_OldestUtc ==
  tpc \in {"utc", "local"} =>
    /\ ~utc_res.panic
    /\ utc_res.v = Floor0(now - interval * 60)
    /\ utc_res.v <= now

\* ---------------------------------------------------------------------- C9
\* C9, for the zones west of UTC and the intervals whose seconds fit the
\* word: get_oldest_allowed_local_ts is the UTC boundary plus the offset, and
\* not a value beyond now.
C9_OldestLocal ==
  (tpc = "local" /\ interval * 60 < WordMax /\ local_offset < 0) =>
    /\ ~local_res.panic
    /\ local_res.v = Floor0(now - interval * 60) + local_offset
    /\ local_res.v <= now

\* --------------------------------------------------------------------- C11
\* the process ended after run returned its totals
Reported == mpc = "exit" /\ res.tag = "Ok"

\* the process ended on an error: no usable arguments, no Config, a panic
EndedFatal == mpc = "exit" /\ res.tag # "Ok"

CriticalMet == res.matches >= parsed.conf.max_critical_matches
WarningMet == res.matches >= parsed.conf.max_warning_matches

\* C11: the exit status is 2 when the critical threshold is met, 1 when the
\* warning threshold is met and the critical one is not, 0 when neither is met
\* and a file was processed, 3 when neither is met and no file matched the
\* name, and 3 on a fatal error.
C11_ExitStatus ==
  /\ EndedFatal => exit_code = 3
  /\ Reported =>
       exit_code = IF CriticalMet THEN 2
                   ELSE IF WarningMet THEN 1
                   ELSE IF res.files_matched = 0 THEN 3
                   ELSE 0

\* --------------------------------------------------------------------- C12
\* C12: a count that meets the critical and the warning threshold is reported
\* as CRITICAL, and WARNING is reported exactly for the counts that meet the
\* warning threshold and stay below the critical one.
C12_CriticalFirst ==
  Reported =>
    /\ (CriticalMet /\ WarningMet) => status = "CRITICAL"
    /\ status = "WARNING" <=> (WarningMet /\ ~CriticalMet)

\* a count at or above a critical threshold that lies above the warning
\* threshold has been reported
C12_Witness ==
  /\ Reported
  /\ CriticalMet
  /\ parsed.conf.max_warning_matches < parsed.conf.max_critical_matches
  /\ status = "CRITICAL"

\* --------------------------------------------------------------------- C13
\* the arguments Config::new is to refuse
Refused(a) ==
  a.filename = "" \/ a.search_pattern = "" \/ a.interval_to_check < 1
    \/ a.filename = StdinPath

\* C13: Config::new returns an error for an empty file name, an empty
\* pattern, an interval below 1 and the file name "-", and run is not reached
\* then; for all other arguments it returns a Config that equals them, with
\* the default in the place of an empty date pattern.
C13_ConfigNew ==
  /\ (parsed.tag # "none" /\ Refused(argv)) => parsed.tag = "Err"
  /\ (parsed.tag # "none" /\ ~Refused(argv)) =>
       /\ parsed.tag = "Ok"
       /\ parsed.conf = [argv EXCEPT !.date_pattern =
                           IF @ = "" THEN "%Y-%m-%d %H:%M:%S" ELSE @]
  /\ mpc \in {"run", "report"} => ~Refused(argv)

\* --------------------------------------------------------------------- C14
\* C14: a second call of run with the same Config, over the same files and at
\* the same clock ends as the first did, with the same totals, whatever the
\* first call left behind.
C14_Deterministic ==
  (runs = 2 /\ rpc \in {"done", "panic", "overflow"}) => Outcome = first

\* the second call has returned totals that are not 0
C14_Witness ==
  runs = 2 /\ rpc = "done" /\ matches >= 1 /\ files_processed >= 1

\* --------------------------------------------------------------------- C15
\* the timestamp of a line as a reader takes it: the date field of a line of
\* valid text, when it resolves (no timestamp otherwise)
Stamps(line) ==
  IF NotUtf8(line) THEN {}
  ELSE LET words == split_whitespace(Trim(line))
           from == conf.timeposition
           to == conf.timeposition + whitespaces_in_date(conf)
       IN IF to > Len(words) THEN {}
          ELSE LET date == parse_date(join(SubSeq(words, from + 1, to)), conf.date_pattern)
               IN IF date.tag = "Some" THEN {date.ts} ELSE {}

\* the k-th line handed to process_line
YieldedLine(k) == Slice(file, yielded[k])

\* a file is being scanned, or its scan has ended
Scanning == rpc \in {"scan", "ret"} /\ Cur.fs = "file"

\* the lines process_line has returned for: all but the one it is stopped on
Passed == {k \in 1..Len(yielded) : stop \in {"none", "eof"} \/ k < Len(yielded)}

\* C15: a line stamped with the boundary itself is not too old: it is
\* matched against the pattern, counted when it matches, and the scan goes on
\* past it; the scan stops as too old exactly on the first line stamped
\* before the boundary.
C15_StrictTooOld ==
  Scanning =>
    /\ \A k \in Passed : \A ts \in Stamps(YieldedLine(k)) : ts >= oldest_ts
    /\ stop = "old" =>
         \E ts \in Stamps(YieldedLine(Len(yielded))) : ts < oldest_ts
    /\ file_matches =
         Cardinality({k \in Passed :
                        /\ Stamps(YieldedLine(k)) # {}
                        /\ is_match(conf.re, Trim(YieldedLine(k)))})

\* a matching line stamped with the boundary was counted, and the scan went
\* on to a line before the boundary
C15_Witness ==
  /\ Scanning
  /\ stop = "old"
  /\ \E k \in Passed :
       /\ Stamps(YieldedLine(k)) = {oldest_ts}
       /\ is_match(conf.re, Trim(YieldedLine(k)))
  /\ file_matches >= 1

\* --------------------------------------------------------------------- C16
\* a line of valid text with no usable date: nothing left after trimming,
\* fewer words than the date field needs, or a date field that none of the
\* strategies resolves
NoDate(line) ==
  /\ ~NotUtf8(line)
  /\ LET words == split_whitespace(Trim(line))
          from == conf.timeposition
          to == conf.timeposition + whitespaces_in_date(conf)
      IN \/ to > Len(words)
         \/ Strategies(join(SubSeq(words, from + 1, to)), conf.date_pattern) = None

\* the scan of a file is under way, has ended, or was aborted
InFile == rpc \in {"scan", "ret", "overflow"} /\ Cur.fs = "file"

\* the scan has ended before the start of the file
Stopped == rpc = "overflow" \/ stop \in {"old", "utf8"}

\* C16: a line with no usable date is not counted, even when the pattern
\* matches it, and the scan never ends on such a line.
C16_NoDateLines ==
  InFile =>
    /\ Stopped => ~NoDate(YieldedLine(Len(yielded)))
    /\ file_matches =
         Cardinality({k \in Passed : /\ ~NoDate(YieldedLine(k))
                                     /\ is_match(conf.re, Trim(YieldedLine(k)))})

\* the same for the scans in which parse_date returns
C16_WhenParseReturns == rpc # "overflow" => C16_NoDateLines

\* --------------------------------------------------------------------- C17
\* the candidates taken so far that passed the age filter
PassedAge ==
  {i \in 1..entry : /\ cands[i].fs \notin {"globerr", "nometa", "future"}
                    /\ cands[i].elapsed <= conf.interval_to_check * 60}

\* C17: the candidates are taken one at a time, and only between two calls
\* of process_file; the totals change only when a call of process_file has
\* returned: total_matches grows by the matches the call returned and
\* files_processed by one exactly when it returned Ok; files_processed never
\* exceeds the number of candidates that passed the age filter.
C17_RunningTotals ==
  /\ [](files_processed <= Cardinality(PassedAge))
  /\ [][/\ entry' # entry => (rpc = "loop" /\ entry' = entry + 1)
        /\ (matches' # matches \/ files_processed' # files_processed) =>
             /\ rpc = "ret" /\ rpc' = "loop"
             /\ matches' = matches + ret.matches
             /\ matches' >= matches
             /\ files_processed' =
                  files_processed + (IF ret.tag = "Ok" THEN 1 ELSE 0)]_vars

\* two files were processed one after the other, each with a match
C17_Witness ==
  rpc = "done" /\ entry = 2 /\ matches = 2 /\ files_processed = 2

\* --------------------------------------------------------------------- C18
\* C18: every call of parse_date returns: no chain of retries exhausts the
\* stack, because a retry is a call on a shorter text than the call before.
C18_ParseDateTerminates ==
  /\ dpc # "overflow"
  /\ depth > 1 => Len(datefields) < Len(dtext)

\* --------------------------------------------------------------------- C19
\* the loop of process_file over a mapped file is under way or has ended
InLoop == rpc \in {"scan", "ret", "overflow"} /\ Cur.fs = "file" /\ Len(file) >= 1

\* every range handed to process_line lies inside the buffer
RangesInside ==
  \A k \in 1..Len(yielded) :
     0 <= yielded[k][1] /\ yielded[k][1] <= yielded[k][2] /\ yielded[k][2] <= Len(file)

\* an iteration of the loop moves the cursor down by one and reads the
\* buffer at the cursor only, which is -1 or inside the buffer
CursorSteps ==
  (rpc = "scan" /\ index' # index) =>
     (index' = index - 1 /\ -1 <= index /\ index <= Len(file) - 1)

\* C19 as stated: over a buffer of N >= 1 bytes, in every state
\* -1 <= index <= N-1 and index + 1 <= last_printed <= N, every range lies
\* inside the buffer, the cursor moves down by one per iteration, and the
\* loop ends after at most N+1 iterations.
C19_AsStated ==
  /\ [](InLoop =>
         /\ -1 <= index /\ index <= Len(file) - 1
         /\ index + 1 <= last_printed /\ last_printed <= Len(file)
         /\ RangesInside
         /\ Len(file) - 1 - index <= Len(file) + 1)
  /\ [][CursorSteps]_vars

\* C19, amended: -2 <= index <= N-1, and index is -2 only when the loop has
\* ended at the start of the buffer (the iteration at index -1 has handed out
\* the first line and moved the cursor down once more); at every read of the
\* buffer 0 <= index <= N-1; index + 1 <= last_printed <= N; every range lies
\* inside the buffer; the cursor moves down by one per iteration, and the
\* loop ends after at most N+1 iterations.
C19_CursorInvariant ==
  /\ [](InLoop =>
         /\ -2 <= index /\ index <= Len(file) - 1
         /\ index = -2 => (last_printed = 0 /\ stop \in {"none", "eof"})
         /\ index + 1 <= last_printed /\ last_printed <= Len(file)
         /\ RangesInside
         /\ Len(file) - 1 - index <= Len(file) + 1)
  /\ [][CursorSteps]_vars

\* the loop has run to the start of a buffer of several lines
C19_Witness ==
  InLoop /\ index = -2 /\ stop = "eof" /\ Len(yielded) >= 2 /\ Len(file) >= 3

=============================================================================
